---- MODULE Spec2Model ----
(***************************************************************************)
(* Model of dougsgrott/data-engineering-studies:                           *)
(*   - aws-glue-athena-studies/main.py: the Glue wrapper functions and the *)
(*     __main__ script (create crawler, start crawler, poll until READY,   *)
(*     start an Athena query, one status check, fetch the result);         *)
(*   - boto-s3-studies/functional_low_level.py: the S3 wrapper functions.  *)
(* Remote services (Glue, Athena, S3) are the environment: every remote    *)
(* call either answers or raises a ClientError, chosen nondeterministically*)
(***************************************************************************)
EXTENDS Integers, Sequences, FiniteSets, TLC

\* ------------------------------------------------------------------ bounds
\* Cap on the number of status queries the crawler loop issues in the model.
\* The loop in the code has no bound of its own.
MaxPolls == 4

\* --------------------------------------------------------------- constants
\* Crawler 'State' values of the Glue service.
CrawlerStates == {"READY", "RUNNING", "STOPPING"}

\* QueryExecution.Status.State values of the Athena service.
AthenaStates == {"QUEUED", "RUNNING", "SUCCEEDED", "FAILED", "CANCELLED"}

\* Athena states from which the service makes no further transition.
AthenaTerminal == {"SUCCEEDED", "FAILED", "CANCELLED"}

\* Error codes a botocore ClientError can carry.
ErrorCodes == {"EntityNotFoundException", "AlreadyExistsException", "ThrottlingException"}

\* QueryExecutionId values start_query_execution can hand out.
Handles == {"q1", "q2"}

\* crawler_name = "crawler_dmsauto-nasdaq-raw__data"
CrawlerName == "crawler"

VARIABLES
    pc,             \* position of the __main__ script of main.py
    exc,            \* uncaught exception that ended the script: [at, code]
    log,            \* remote calls and sleeps the script has made, in order
    crawler_state,  \* main.py:659 local of the polling loop ("None" = None)
    query_job,      \* main.py:689 QueryExecutionId returned ("None" before)
    status,         \* main.py:705 observed query state ("None" before)
    result_data,    \* main.py:712 fetched result set ("None" before)
    athenaState,    \* remote: state of the query execution in Athena
    call,           \* last call of a Glue/S3 wrapper function and its outcome
    buckets,        \* remote: names of the S3 buckets that exist
    objects,        \* remote: keys stored in bucket BucketName
    run             \* GlueCrawler.run: [pc, exc, log, crawler]

scriptVars == <<pc, exc, log, crawler_state, query_job, status, result_data, athenaState>>
s3Vars == <<buckets, objects>>
vars == <<pc, exc, log, crawler_state, query_job, status, result_data, athenaState,
          call, buckets, objects, run>>

\* ---------------------------------------------------------------- helpers
NoExc == [at |-> "none", code |-> "none"]

Event(op, arg, out) == [op |-> op, arg |-> arg, out |-> out]

\* Outcomes of a remote call that returns nothing of interest.
AckOutcomes == {"ok"} \cup ErrorCodes

\* The events of the log made by remote operation op, in order.
EventsOf(op) == SelectSeq(log, LAMBDA e : e.op = op)

\* An uncaught exception ends the script (a ClientError raised by a direct
\* client call propagates out of the module's top level).
Raise(at, code) ==
    /\ pc' = "raised"
    /\ exc' = [at |-> at, code |-> code]

\* ------------------------------------------------- __main__ of main.py
\* main.py:622-650  response = client.create_crawler(...); print
ScriptCreateCrawler ==
    /\ pc = "create"
    /\ \E out \in AckOutcomes :
        /\ log' = Append(log, Event("create_crawler", CrawlerName, out))
        /\ IF out = "ok"
              THEN pc' = "list" /\ exc' = exc
              ELSE Raise("create", out)
    /\ UNCHANGED <<crawler_state, query_job, status, result_data, athenaState,
                   call, buckets, objects, run>>

\* main.py:652-653  response = client.list_crawlers(); print
ScriptListCrawlers ==
    /\ pc = "list"
    /\ \E out \in AckOutcomes :
        /\ log' = Append(log, Event("list_crawlers", "", out))
        /\ IF out = "ok"
              THEN pc' = "start" /\ exc' = exc
              ELSE Raise("list", out)
    /\ UNCHANGED <<crawler_state, query_job, status, result_data, athenaState,
                   call, buckets, objects, run>>

\* main.py:656-659  client.start_crawler(Name=crawler_name); crawler_state = None
ScriptStartCrawler ==
    /\ pc = "start"
    /\ \E out \in AckOutcomes :
        /\ log' = Append(log, Event("start_crawler", CrawlerName, out))
        /\ IF out = "ok"
              THEN pc' = "poll" /\ exc' = exc /\ crawler_state' = "None"
              ELSE Raise("start", out) /\ crawler_state' = crawler_state
    /\ UNCHANGED <<query_job, status, result_data, athenaState, call, buckets, objects, run>>

\* Variants of the loop condition: a misspelt terminal value, every state but
\* RUNNING taken as terminal, and a wait limit of three polls.
LoopContinuesWrongCase(state) == state # "Ready"

LoopContinuesOnlyRunning(state) == state # "READY" /\ state # "STOPPING"

LoopContinuesMaxWait(state) ==
    state # "READY" /\ Len(EventsOf("get_crawler")) < 3

\* main.py:660 (and 432)  while crawler_state != 'READY'
LoopContinues(state) == state # "READY"

\* Variant of the loop body that stays in the loop when the status query
\* raises, and so queries again.
ScriptPollRetry ==
    /\ pc = "poll"
    /\ LoopContinues(crawler_state)
    /\ Len(EventsOf("get_crawler")) < MaxPolls
    /\ \E out \in CrawlerStates \cup ErrorCodes :
        /\ log' = log \o <<Event("sleep", "10", "ok"),
                           Event("get_crawler", CrawlerName, out)>>
        /\ crawler_state' = IF out \in CrawlerStates THEN out ELSE crawler_state
    /\ UNCHANGED <<pc, exc, query_job, status, result_data, athenaState,
                   call, buckets, objects, run>>

\* Variant of the loop body that queries without waiting first.
PollEventsNoWait(out) == <<Event("get_crawler", CrawlerName, out)>>

\* main.py:661-662 (and 433-434)  what one iteration does, in order:
\* time.sleep(10), then client.get_crawler(Name=crawler_name) answering out.
PollEvents(out) ==
    <<Event("sleep", "10", "ok"), Event("get_crawler", CrawlerName, out)>>

\* main.py:661-664  one iteration of the loop body: sleep, query, assign.
\* The status query either returns the crawler record or raises.
ScriptPoll ==
    /\ pc = "poll"
    /\ LoopContinues(crawler_state)
    /\ Len(EventsOf("get_crawler")) < MaxPolls
    /\ \E out \in CrawlerStates \cup ErrorCodes :
        /\ log' = log \o PollEvents(out)
        /\ IF out \in CrawlerStates
              THEN pc' = "poll" /\ exc' = exc /\ crawler_state' = out
              ELSE Raise("poll", out) /\ crawler_state' = crawler_state
    /\ UNCHANGED <<query_job, status, result_data, athenaState, call, buckets, objects, run>>

\* main.py:660,665-685  the loop condition is false: leave the loop.
ScriptPollExit ==
    /\ pc = "poll"
    /\ ~LoopContinues(crawler_state)
    /\ pc' = "athena_start"
    /\ UNCHANGED <<exc, log, crawler_state, query_job, status, result_data,
                   athenaState, call, buckets, objects, run>>

\* main.py:689-699  query_job = athena.start_query_execution(...)
ScriptStartQuery ==
    /\ pc = "athena_start"
    /\ \E out \in Handles \cup ErrorCodes :
        /\ log' = Append(log, Event("start_query_execution", "query", out))
        /\ IF out \in Handles
              THEN /\ pc' = "athena_status" /\ exc' = exc
                   /\ query_job' = out
                   /\ athenaState' = "QUEUED"
              ELSE /\ Raise("athena_start", out)
                   /\ UNCHANGED <<query_job, athenaState>>
    /\ UNCHANGED <<crawler_state, status, result_data, call, buckets, objects, run>>

\* Remote Athena service: the launched query moves toward one terminal state.
AthenaProgress ==
    /\ athenaState \in {"QUEUED", "RUNNING"}
    /\ \E s \in AthenaStates :
        /\ \/ athenaState = "QUEUED" /\ s \in {"RUNNING", "FAILED", "CANCELLED"}
           \/ athenaState = "RUNNING" /\ s \in AthenaTerminal
        /\ athenaState' = s
    /\ UNCHANGED <<pc, exc, log, crawler_state, query_job, status, result_data,
                   call, buckets, objects, run>>

\* main.py:701-705  time.sleep(10); one get_query_execution; status = ...State
ScriptGetQueryExecution ==
    /\ pc = "athena_status"
    /\ \E out \in {athenaState} \cup ErrorCodes :
        /\ log' = log \o <<Event("sleep", "10", "ok"),
                           Event("get_query_execution", query_job, out)>>
        /\ IF out \in AthenaStates
              THEN pc' = "athena_branch" /\ exc' = exc /\ status' = out
              ELSE Raise("athena_status", out) /\ status' = status
    /\ UNCHANGED <<crawler_state, query_job, result_data, athenaState,
                   call, buckets, objects, run>>

\* Variants of the fetch condition: any terminal state, any state but RUNNING.
FetchGuardAny(st) == st \in AthenaTerminal

FetchGuardNotRunning(st) == st # "RUNNING"

\* main.py:706  if status == 'SUCCEEDED'

FetchGuard(st) == st = "SUCCEEDED"

\* main.py:707-712  get_query_results(QueryExecutionId=...); result_data = ...
ScriptFetchResults ==
    /\ pc = "athena_branch"
    /\ FetchGuard(status)
    /\ \E out \in AckOutcomes :
        /\ log' = Append(log, Event("get_query_results", query_job, out))
        /\ IF out = "ok"
              THEN pc' = "done" /\ exc' = exc /\ result_data' = "ResultSet"
              ELSE Raise("athena_fetch", out) /\ result_data' = result_data
    /\ UNCHANGED <<crawler_state, query_job, status, athenaState, call, buckets, objects, run>>

\* Variant of the false branch that raises on a failed terminal status.
ScriptSkipFetchRaise ==
    /\ pc = "athena_branch"
    /\ ~FetchGuard(status)
    /\ IF status \in AthenaTerminal
          THEN Raise("athena_branch", status)
          ELSE pc' = "done" /\ exc' = exc
    /\ UNCHANGED <<log, crawler_state, query_job, status, result_data,
                   athenaState, call, buckets, objects, run>>

\* main.py:706  the condition is false: the script ends, nothing is fetched.
ScriptSkipFetch ==
    /\ pc = "athena_branch"
    /\ ~FetchGuard(status)
    /\ pc' = "done"
    /\ UNCHANGED <<exc, log, crawler_state, query_job, status, result_data,
                   athenaState, call, buckets, objects, run>>

ScriptNext ==
    \/ ScriptCreateCrawler
    \/ ScriptListCrawlers
    \/ ScriptStartCrawler
    \/ ScriptPoll
    \/ ScriptPollExit
    \/ ScriptStartQuery
    \/ AthenaProgress
    \/ ScriptGetQueryExecution
    \/ ScriptFetchResults
    \/ ScriptSkipFetch

\* ------------------------------------------- Glue wrapper functions, main.py
\* Result of a wrapper call as its caller sees it: the value returned, or the
\* exception raised ("none" = returned normally).
Returned(v) == [ret |-> v, exc |-> "none"]

Raised(e) == [ret |-> "None", exc |-> e]

\* Variant without the not-found branch: every ClientError is raised.
get_crawler_raise_all(resp) ==
    IF resp \in CrawlerStates THEN Returned(resp) ELSE Raised(resp)

\* main.py:61-80  get_crawler(client, name); resp is what client.get_crawler
\* answered: the crawler record (named by its State) or a ClientError code.
get_crawler(resp) ==
    IF resp \in CrawlerStates
       THEN Returned(resp)
       ELSE IF resp = "EntityNotFoundException"
               THEN Returned("None")
               ELSE Raised(resp)

\* Variant that logs the ClientError and returns.
create_crawler_swallow(resp) == Returned("None")

\* main.py:83-110  create_crawler(client, name, ...): one remote call; a
\* ClientError is logged and raised again.

create_crawler(resp) ==
    IF resp = "ok" THEN Returned("None") ELSE Raised(resp)

\* main.py:113-126  start_crawler(client, name): same shape.
start_crawler(resp) ==
    IF resp = "ok" THEN Returned("None") ELSE Raised(resp)

\* main.py:129-144  get_database(client, name): response['Database'], or the
\* ClientError logged and raised again, whatever its code.
get_database(resp) ==
    IF resp = "ok" THEN Returned("Database") ELSE Raised(resp)

\* A caller invokes one of the wrapper functions; call records the remote
\* calls the wrapper made and what the caller got back.
WrapperCall(fn, remote, result) ==
    [fn |-> fn, remote |-> remote, ret |-> result.ret, exc |-> result.exc]

CallGetCrawler ==
    /\ \E resp \in CrawlerStates \cup ErrorCodes :
        call' = WrapperCall("get_crawler",
                            <<Event("get_crawler", CrawlerName, resp)>>,
                            get_crawler(resp))
    /\ UNCHANGED <<scriptVars, s3Vars, run>>

CallCreateCrawler ==
    /\ \E resp \in AckOutcomes :
        call' = WrapperCall("create_crawler",
                            <<Event("create_crawler", CrawlerName, resp)>>,
                            create_crawler(resp))
    /\ UNCHANGED <<scriptVars, s3Vars, run>>

CallStartCrawler ==
    /\ \E resp \in AckOutcomes :
        call' = WrapperCall("start_crawler",
                            <<Event("start_crawler", CrawlerName, resp)>>,
                            start_crawler(resp))
    /\ UNCHANGED <<scriptVars, s3Vars, run>>

CallGetDatabase ==
    /\ \E resp \in AckOutcomes :
        call' = WrapperCall("get_database",
                            <<Event("get_database", "db", resp)>>,
                            get_database(resp))
    /\ UNCHANGED <<scriptVars, s3Vars, run>>

GlueNext ==
    \/ CallGetCrawler
    \/ CallCreateCrawler
    \/ CallStartCrawler
    \/ CallGetDatabase

\* ------------------------------------------------ GlueCrawler.run, main.py
\* run is the state of one call of GlueCrawler.run: its position, the
\* exception that ended it, the remote calls its wrapper made, and its local
\* variable crawler. The wrapper methods are the functions above.
RunInit == [pc |-> "lookup", exc |-> "none", log |-> <<>>, crawler |-> "None"]

\* What a lookup at main.py:410 or 416 leaves behind; next is the position
\* that follows when the lookup returns result r.
RunAfterLookup(resp, r, next) ==
    [pc      |-> IF r.exc # "none" THEN "raised" ELSE next,
     exc     |-> r.exc,
     log     |-> Append(run.log, Event("get_crawler", CrawlerName, resp)),
     crawler |-> r.ret]

\* main.py:408-411  crawler = wrapper.get_crawler(crawler_name); if crawler is None
RunLookup ==
    /\ run.pc = "lookup"
    /\ \E resp \in CrawlerStates \cup ErrorCodes :
        LET r == get_crawler(resp) IN
        run' = RunAfterLookup(resp, r, IF r.ret = "None" THEN "create" ELSE "show")
    /\ UNCHANGED <<scriptVars, call, s3Vars>>

\* main.py:412-415  wrapper.create_crawler(...)
RunCreate ==
    /\ run.pc = "create"
    /\ \E resp \in AckOutcomes :
        LET r == create_crawler(resp) IN
        run' = [run EXCEPT
                   !.pc = IF r.exc # "none" THEN "raised" ELSE "relookup",
                   !.exc = r.exc,
                   !.log = Append(@, Event("create_crawler", CrawlerName, resp))]
    /\ UNCHANGED <<scriptVars, call, s3Vars>>

\* main.py:416  crawler = wrapper.get_crawler(crawler_name)
RunLookupAgain ==
    /\ run.pc = "relookup"
    /\ \E resp \in CrawlerStates \cup ErrorCodes :
        run' = RunAfterLookup(resp, get_crawler(resp), "show")
    /\ UNCHANGED <<scriptVars, call, s3Vars>>

\* main.py:417-418  pprint(crawler): main.py:13 is 'import pprint', so the
\* name is the module and calling it raises TypeError. Lines 419-437
\* (start_crawler and the polling loop) are therefore never reached.
RunShow ==
    /\ run.pc = "show"
    /\ run' = [run EXCEPT !.pc = "raised", !.exc = "TypeError"]
    /\ UNCHANGED <<scriptVars, call, s3Vars>>

RunNext ==
    \/ RunLookup
    \/ RunCreate
    \/ RunLookupAgain
    \/ RunShow

\* --------------------------- S3 wrapper functions, functional_low_level.py
\* Bucket names of the model; BucketName is the bucket whose contents the
\* model tracks (bucket_name = "dms-nasdaq" in usage_demo).
BucketNames == {"b1", "b2"}

BucketName == "b1"

\* Object keys and local file names are paths: sequences of components, so
\* <<"dir", "k1">> is "dir/k1".
Keys == {<<"k1">>, <<"dir", "k1">>}

\* Longest object_list handed to delete_objects_from_bucket in the model.
MaxListLen == 2

\* The Python lists of keys up to that length (duplicates included).
ObjectLists == UNION {[1..n -> Keys] : n \in 0..MaxListLen}

\* The keys that occur in a list.
Range(list) == {list[i] : i \in 1..Len(list)}

\* os.path.basename(file_name): the last component of the path.
Basename(path) == <<path[Len(path)]>>

\* A ClientError of the S3 service that does not depend on the request.
S3Fault == "AccessDenied"

\* An exception of the client library that is not a ClientError (no
\* connection, no credentials, a failed transfer).
OtherError == "BotoCoreError"

\* botocore.exceptions.ClientError: what 'except ClientError' catches.
IsClientError(e) ==
    e \in {S3Fault, "NoSuchBucket", "BucketNotEmpty", "NoSuchCORSConfiguration"}

\* Remote S3: what a request can do, as a set of [err, ...new state] records.
\* err = "none" means the call answered; otherwise it raised the exception err.
S3ListBuckets == {[err |-> "none"], [err |-> S3Fault], [err |-> OtherError]}

S3ListObjects(b) ==
    IF b \notin buckets \/ b # BucketName
       THEN {[err |-> IF b \in buckets THEN "none" ELSE "NoSuchBucket", keys |-> {}]}
       ELSE {[err |-> "none", keys |-> objects],
             [err |-> S3Fault, keys |-> {}],
             [err |-> OtherError, keys |-> {}]}

\* delete_object / delete_objects: the listed keys go away, or the call raises
\* and nothing changes. A batch delete_objects of several keys can also answer
\* normally while reporting, in its response, keys it did not delete.
S3Delete(b, objs, keys) ==
    IF b \notin buckets
       THEN {[err |-> "NoSuchBucket", objs |-> objs]}
       ELSE {[err |-> "none", objs |-> IF b = BucketName THEN objs \ keys ELSE objs],
             [err |-> S3Fault, objs |-> objs],
             [err |-> OtherError, objs |-> objs]}
            \cup (IF Cardinality(keys) > 1 /\ b = BucketName
                     THEN {[err |-> "none", objs |-> objs \ {k}] : k \in keys}
                     ELSE {})

\* delete_bucket: refused while the bucket holds objects.
S3DeleteBucket(b, bks, objs) ==
    IF b \notin bks
       THEN {[err |-> "NoSuchBucket", bks |-> bks]}
       ELSE IF b = BucketName /\ objs # {}
               THEN {[err |-> "BucketNotEmpty", bks |-> bks]}
               ELSE {[err |-> "none", bks |-> bks \ {b}],
                     [err |-> S3Fault, bks |-> bks],
                     [err |-> OtherError, bks |-> bks]}

\* get_bucket_cors: the rules of the configuration, NoSuchCORSConfiguration
\* when the bucket has none, or another failure.
S3GetBucketCors ==
    {[err |-> "none"], [err |-> "NoSuchCORSConfiguration"],
     [err |-> S3Fault], [err |-> OtherError]}

\* A caller invokes one of the S3 wrapper functions: arg is its input, failed
\* tells whether a remote call it made raised, remote names the remote calls
\* it made, answer is what the remote service answered where the wrapper
\* looks at it, ret/exc is what the caller got back, and names is the list
\* returned when ret = "list".
S3Call(fn, arg, failed, result) ==
    [fn |-> fn, arg |-> arg, failed |-> failed, ret |-> result.ret, exc |-> result.exc,
     names |-> {}, remote |-> <<>>, answer |-> "none"]

\* functional_low_level.py:25-47  create_bucket: True, or False on ClientError.
create_bucket(err) ==
    IF err = "none" THEN Returned("True")
    ELSE IF IsClientError(err) THEN Returned("False")
    ELSE Raised(err)

CallCreateBucket ==
    /\ \E b \in BucketNames, err \in {"none", S3Fault, OtherError} :
        /\ buckets' = IF err = "none" THEN buckets \cup {b} ELSE buckets
        /\ call' = [S3Call("create_bucket", b, err # "none", create_bucket(err))
                       EXCEPT !.remote = <<"create_bucket">>]
    /\ UNCHANGED <<scriptVars, objects, run>>

\* A list handed back by a wrapper.
ListResult(ns) == [ret |-> "list", exc |-> "none", names |-> ns]

\* functional_low_level.py:53-64  get_list_of_existing_buckets: the names, or
\* [] on ClientError.
get_list_of_existing_buckets(r) ==
    IF r.err = "none" THEN ListResult(buckets)
    ELSE IF IsClientError(r.err) THEN ListResult({})
    ELSE [ret |-> "None", exc |-> r.err, names |-> {}]

CallListBuckets ==
    /\ \E r \in S3ListBuckets :
        LET l == get_list_of_existing_buckets(r) IN
        call' = [S3Call("get_list_of_existing_buckets", "", r.err # "none", l)
                    EXCEPT !.names = l.names, !.remote = <<"list_buckets">>]
    /\ UNCHANGED <<scriptVars, s3Vars, run>>

\* functional_low_level.py:67-76  check_if_bucket_exists
check_if_bucket_exists(r, b) ==
    LET l == get_list_of_existing_buckets(r) IN
    IF l.exc # "none" THEN Raised(l.exc)
    ELSE Returned(IF b \in l.names THEN "True" ELSE "False")

CallCheckBucket ==
    /\ \E b \in BucketNames, r \in S3ListBuckets :
        call' = [S3Call("check_if_bucket_exists", b, r.err # "none",
                        check_if_bucket_exists(r, b))
                    EXCEPT !.remote = <<"list_buckets">>]
    /\ UNCHANGED <<scriptVars, s3Vars, run>>

\* functional_low_level.py:112-114  the object name the upload uses:
\* object_name, or os.path.basename(file_name) when it is None.
UploadName(file_name, object_name) ==
    IF object_name = <<>> THEN Basename(file_name) ELSE object_name

\* functional_low_level.py:116-122  True, or False on ClientError.
upload_file(err) ==
    IF err = "none" THEN Returned("True")
    ELSE IF IsClientError(err) THEN Returned("False")
    ELSE Raised(err)

\* functional_low_level.py:102-122  upload_file(client, file_name, bucket,
\* object_name=None); <<>> stands for object_name = None.
CallUploadFile ==
    /\ BucketName \in buckets
    /\ \E f \in Keys, o \in Keys \cup {<<>>}, err \in {"none", S3Fault, OtherError} :
        /\ objects' = IF err = "none"
                         THEN objects \cup {UploadName(f, o)}
                         ELSE objects
        /\ call' = [S3Call("upload_file",
                           [file_name |-> f, object_name |-> o, used |-> UploadName(f, o)],
                           err # "none", upload_file(err))
                       EXCEPT !.remote = <<"upload_file">>]
    /\ UNCHANGED <<scriptVars, buckets, run>>

\* The inputs of delete_objects_from_bucket: a value that is not a list, or a
\* list of keys.
ObjectListInputs ==
    {[isList |-> FALSE, items |-> <<>>]}
    \cup {[isList |-> TRUE, items |-> l] : l \in ObjectLists}

\* functional_low_level.py:168-179  the remote call made for a valid list:
\* delete_object for one key, delete_objects for several.
DeleteRequest(object_list) ==
    IF ~object_list.isList \/ Len(object_list.items) = 0 THEN <<>>
    ELSE IF Len(object_list.items) = 1 THEN <<"delete_object">>
    ELSE <<"delete_objects">>

\* Variant without the two input checks.
delete_objects_from_bucket_unchecked(object_list, r) ==
    IF r.err = "none" THEN Returned("True") ELSE Returned("False")

\* functional_low_level.py:154-183  delete_objects_from_bucket: TypeError on a
\* value that is not a list, ValueError on an empty list; otherwise True, or
\* False on any exception of the remote call (r is its outcome).
delete_objects_from_bucket(object_list, r) ==
    IF ~object_list.isList THEN Raised("TypeError")
    ELSE IF Len(object_list.items) = 0 THEN Raised("ValueError")
    ELSE IF r.err = "none" THEN Returned("True") ELSE Returned("False")

\* functional_low_level.py:205-219  delete_bucket: True, or False on any
\* exception.
delete_bucket(r) ==
    IF r.err = "none" THEN Returned("True") ELSE Returned("False")

CallDeleteObjects ==
    /\ \E ol \in ObjectListInputs :
        IF DeleteRequest(ol) = <<>>
           THEN /\ call' = S3Call("delete_objects_from_bucket", ol, FALSE,
                                  delete_objects_from_bucket(ol, [err |-> "none"]))
                /\ objects' = objects
           ELSE \E r \in S3Delete(BucketName, objects, Range(ol.items)) :
                /\ call' = [S3Call("delete_objects_from_bucket", ol, r.err # "none",
                                   delete_objects_from_bucket(ol, r))
                               EXCEPT !.remote = DeleteRequest(ol)]
                /\ objects' = r.objs
    /\ UNCHANGED <<scriptVars, buckets, run>>

CallDeleteBucket ==
    /\ \E b \in BucketNames :
        \E r \in S3DeleteBucket(b, buckets, objects) :
            /\ call' = [S3Call("delete_bucket", b, r.err # "none", delete_bucket(r))
                           EXCEPT !.remote = <<"delete_bucket">>]
            /\ buckets' = r.bks
    /\ UNCHANGED <<scriptVars, objects, run>>

\* functional_low_level.py:79-94  get_list_objects_in_bucket: the keys of the
\* response as a list ([] when KeyCount is 0); no exception is caught.
ListOf(keys) ==
    CHOOSE l \in [1..Cardinality(keys) -> keys] : Range(l) = keys

get_list_objects_in_bucket(l) ==
    IF l.err = "none"
       THEN [ret |-> "list", exc |-> "none", items |-> ListOf(l.keys)]
       ELSE [ret |-> "None", exc |-> l.err, items |-> <<>>]

\* Variant that returns False when either delete helper returned False.
nuke_bucket_checked(l, dresult, bresult) ==
    IF l.err # "none"
       THEN Returned("False")
       ELSE IF dresult.exc # "none"
               THEN Raised(dresult.exc)
               ELSE IF dresult.ret = "True" /\ bresult.ret = "True"
                       THEN Returned("True")
                       ELSE Returned("False")

\* functional_low_level.py:186-202  nuke_bucket: list the objects, delete
\* them, delete the bucket. Only a ClientError raised inside the try block
\* makes it return False; any other exception leaves nuke_bucket; the two
\* delete helpers return their failure as a value, which nuke_bucket does not
\* look at.
nuke_bucket(l, dresult, bresult) ==
    IF l.err # "none"
       THEN IF IsClientError(l.err) THEN Returned("False") ELSE Raised(l.err)
       ELSE IF dresult.exc # "none"
               THEN Raised(dresult.exc)
               ELSE Returned("True")

CallNukeBucket ==
    /\ \E l \in S3ListObjects(BucketName) :
        LET listed == get_list_objects_in_bucket(l)
            ol == [isList |-> TRUE, items |-> listed.items]
        IN
        IF listed.exc # "none"
           THEN /\ call' = [S3Call("nuke_bucket", BucketName, TRUE,
                                   nuke_bucket(l, Returned("None"), Returned("None")))
                               EXCEPT !.remote = <<"list_objects_v2">>]
                /\ UNCHANGED s3Vars
           ELSE IF DeleteRequest(ol) = <<>>
                   THEN /\ call' = [S3Call("nuke_bucket", BucketName, FALSE,
                                       nuke_bucket(l,
                                           delete_objects_from_bucket(ol, l),
                                           Returned("None")))
                                       EXCEPT !.remote = <<"list_objects_v2">>]
                        /\ UNCHANGED s3Vars
                   ELSE \E d \in S3Delete(BucketName, objects, Range(ol.items)) :
                        \E b \in S3DeleteBucket(BucketName, buckets, d.objs) :
                            /\ call' = [S3Call("nuke_bucket", BucketName,
                                               d.err # "none" \/ b.err # "none",
                                               nuke_bucket(l,
                                                   delete_objects_from_bucket(ol, d),
                                                   delete_bucket(b)))
                                           EXCEPT !.remote = <<"list_objects_v2">>
                                                       \o DeleteRequest(ol)
                                                       \o <<"delete_bucket">>]
                            /\ objects' = d.objs
                            /\ buckets' = b.bks
    /\ UNCHANGED <<scriptVars, run>>

\* functional_low_level.py:300-317  get_bucket_cors: the rules; [] when the
\* service reports NoSuchCORSConfiguration; None on another ClientError.
get_bucket_cors(r) ==
    IF r.err = "none" THEN Returned("CORSRules")
    ELSE IF r.err = "NoSuchCORSConfiguration" THEN Returned("[]")
    ELSE IF IsClientError(r.err) THEN Returned("None")
    ELSE Raised(r.err)

CallGetBucketCors ==
    /\ BucketName \in buckets
    /\ \E r \in S3GetBucketCors :
        call' = [S3Call("get_bucket_cors", BucketName, r.err # "none", get_bucket_cors(r))
                    EXCEPT !.remote = <<"get_bucket_cors">>, !.answer = r.err]
    /\ UNCHANGED <<scriptVars, s3Vars, run>>

S3Next ==
    \/ CallCreateBucket
    \/ CallListBuckets
    \/ CallCheckBucket
    \/ CallUploadFile
    \/ CallDeleteObjects
    \/ CallDeleteBucket
    \/ CallNukeBucket
    \/ CallGetBucketCors

Init ==
    /\ pc = "create"
    /\ exc = NoExc
    /\ log = <<>>
    /\ crawler_state = "None"
    /\ query_job = "None"
    /\ status = "None"
    /\ result_data = "None"
    /\ athenaState = "None"
    /\ call = [fn |-> "none"]
    /\ buckets = {}
    /\ objects = {}
    /\ run = RunInit

Next == ScriptNext \/ GlueNext

Spec == Init /\ [][Next]_vars

\* The S3 wrapper functions of functional_low_level.py, called in any order.
SpecS3 == Init /\ [][S3Next]_vars

\* One call of GlueCrawler.run, next to callers of the Glue wrapper functions.
SpecRun == Init /\ [][RunNext \/ GlueNext]_vars

\* ================================================================ properties
\* The status queries of the crawler polling loop, in order.
Polls == EventsOf("get_crawler")

\* Position of the first status query that answered READY (0 if none did).
FirstReady ==
    IF \E i \in 1..Len(Polls) : Polls[i].out = "READY"
       THEN CHOOSE i \in 1..Len(Polls) :
                /\ Polls[i].out = "READY"
                /\ \A j \in 1..(i - 1) : Polls[j].out # "READY"
       ELSE 0

\* The script has left the crawler polling loop without an exception in it.
LoopExited ==
    \/ pc \in {"athena_start", "athena_status", "athena_branch", "done"}
    \/ pc = "raised" /\ exc.at \in {"athena_start", "athena_status", "athena_fetch",
                                    "athena_branch"}

\* The get_query_results calls the script has made.
Fetches == EventsOf("get_query_results")

\* C1: once a status query answers the terminal state (READY for a crawler),
\* the loop ends with exactly that value and no status query follows it: the
\* number of status queries is the position of the first terminal answer.
C1_FirstTerminalEndsPolling ==
    /\ \A i \in 1..Len(Polls) : Polls[i].out = "READY" => i = Len(Polls)
    /\ LoopExited =>
        /\ FirstReady > 0
        /\ Len(Polls) = FirstReady
        /\ crawler_state = Polls[FirstReady].out

\* C1 witness: RUNNING, RUNNING, READY was answered and the loop was left
\* after exactly 3 queries.
C1_Witness ==
    /\ LoopExited
    /\ Len(Polls) = 3
    /\ Polls[1].out = "RUNNING" /\ Polls[2].out = "RUNNING" /\ Polls[3].out = "READY"

\* C2: get_query_results is called for a handle only after a status query for
\* that same handle answered SUCCEEDED; while the observed status is anything
\* else (or nothing was observed yet) no result fetch has happened.
C2_FetchOnlyAfterSucceeded ==
    /\ \A i \in 1..Len(log) :
          log[i].op = "get_query_results" =>
              \E j \in 1..(i - 1) :
                  /\ log[j].op = "get_query_execution"
                  /\ log[j].arg = log[i].arg
                  /\ log[j].out = "SUCCEEDED"
    /\ status # "SUCCEEDED" => Fetches = <<>>

\* C2 witness: the result was fetched.
C2_Witness == Len(Fetches) = 1 /\ result_data = "ResultSet"

\* C3 (as stated): with a maximum wait of 3 polls, three RUNNING answers make
\* the poller stop with PollTimeoutError after exactly 3 queries.
C3_TimeoutAfterMaxWait ==
    (/\ Len(Polls) >= 3
     /\ \A i \in 1..3 : Polls[i].out = "RUNNING")
    => /\ Len(Polls) = 3
       /\ pc = "raised"
       /\ exc.code = "PollTimeoutError"

\* C3 (amended): the loop has no maximum wait. As long as no status query has
\* answered READY or raised, the script is still in the loop, crawler_state is
\* the most recent answer, the next status query is enabled, and no timeout
\* error is ever raised.
C3_NoMaximumWait ==
    /\ exc.code # "PollTimeoutError"
    /\ (/\ Len(Polls) > 0
        /\ \A i \in 1..Len(Polls) : Polls[i].out \in CrawlerStates \ {"READY"})
       => /\ pc = "poll"
          /\ crawler_state = Polls[Len(Polls)].out
          /\ Len(Polls) < MaxPolls => ENABLED ScriptPoll

\* C3 witness: four status queries, all answered RUNNING, and still polling.
C3_Witness ==
    /\ pc = "poll"
    /\ Len(Polls) >= 4
    /\ \A i \in 1..Len(Polls) : Polls[i].out = "RUNNING"

\* C4 (as stated): a transient error of the status query is retried; an error
\* surfaces from the poller only after the retry budget (at least the two
\* retries of the scenario) is used up.
C4_TransientErrorRetried ==
    (pc = "raised" /\ exc.at = "poll" /\ exc.code = "ThrottlingException")
    => Len(SelectSeq(Polls, LAMBDA e : e.out \in ErrorCodes)) >= 3

\* C4 (amended): a failing status query is not retried. The first error ends
\* the poller: it is the last status query made and it is the exception the
\* caller gets; the get_crawler wrapper makes one remote call and raises every
\* error except EntityNotFoundException.
C4_FirstErrorPropagates ==
    /\ \A i \in 1..Len(Polls) :
          Polls[i].out \in ErrorCodes =>
              /\ i = Len(Polls)
              /\ pc = "raised"
              /\ exc = [at |-> "poll", code |-> Polls[i].out]
    /\ call.fn = "get_crawler" =>
          /\ Len(call.remote) = 1
          /\ call.remote[1].out \in ErrorCodes \ {"EntityNotFoundException"}
                => call.exc = call.remote[1].out

\* C4 witness: the first status query raised a transient error and the script
\* ended with it after one query.
C4_Witness ==
    /\ pc = "raised"
    /\ exc = [at |-> "poll", code |-> "ThrottlingException"]
    /\ Len(Polls) = 1

\* C5 (as stated): every status other than RUNNING ends the loop, so a status
\* query is followed by another one only if it answered RUNNING.
C5_NonRunningIsTerminal ==
    \A i \in 1..(Len(Polls) - 1) : Polls[i].out = "RUNNING"

\* C5 (amended): READY is the only terminal status of the crawler loop. In the
\* loop with READY observed only the exit is enabled; with any other status
\* (RUNNING, STOPPING, or none yet) the exit is disabled and, below the
\* model's cap, the next status query is enabled.
C5_OnlyReadyIsTerminal ==
    pc = "poll" =>
        IF crawler_state = "READY"
           THEN ENABLED ScriptPollExit /\ ~ENABLED ScriptPoll
           ELSE /\ ~ENABLED ScriptPollExit
                /\ Len(Polls) < MaxPolls => ENABLED ScriptPoll

\* C5 witness: STOPPING was observed and was followed by another status query.
C5_Witness ==
    /\ Len(Polls) >= 2
    /\ Polls[1].out = "STOPPING"

\* The get_query_execution calls the script has made.
StatusChecks == EventsOf("get_query_execution")

\* C6 (as stated): the query lifecycle polls until a terminal status, so the
\* script does not finish on a non-terminal observation, and a query that has
\* reached SUCCEEDED when the script is finished has had its result fetched.
C6_QueryPolledUntilTerminal ==
    pc = "done" =>
        /\ status \in AthenaTerminal
        /\ athenaState = "SUCCEEDED" => result_data = "ResultSet"

\* Values a wrapper function can hand back after a call in which no remote
\* call failed.
SuccessRets(fn) ==
    IF fn = "check_if_bucket_exists" THEN {"True", "False"}
    ELSE IF fn = "get_list_of_existing_buckets" THEN {"list"}
    ELSE {"True"}

\* C7 (as stated): a wrapper call in which a remote call failed never ends in
\* an outcome its caller cannot tell from a successful one: it raises, or it
\* returns a value no successful call returns.
C7_NoFailureSwallowed ==
    (call.fn # "none" /\ call.failed) =>
        \/ call.exc # "none"
        \/ call.ret \notin SuccessRets(call.fn)

\* C8 (as stated): reaching the result fetch with a last observed status
\* other than SUCCEEDED fails with ResultUnavailableError, and
\* get_query_results is not called.
C8_FetchOnNonSuccessFails ==
    (pc \in {"done", "raised"} /\ status \in AthenaStates \ {"SUCCEEDED"}) =>
        /\ exc.code = "ResultUnavailableError"
        /\ Fetches = <<>>

\* C8 (amended): when the last observed status is not SUCCEEDED the fetch is
\* skipped silently: get_query_results is not called, nothing is fetched, no
\* error is raised and the script ends normally.
C8_FetchSkippedSilently ==
    /\ (pc = "athena_branch" /\ status # "SUCCEEDED") =>
          ENABLED ScriptSkipFetch /\ ~ENABLED ScriptFetchResults
    /\ (status \in AthenaStates \ {"SUCCEEDED"}) =>
          /\ pc \in {"athena_branch", "done"}
          /\ exc = NoExc
          /\ Fetches = <<>>
          /\ result_data = "None"

\* C8 witness: the script ended with the query observed QUEUED or RUNNING.
C8_Witness == pc = "done" /\ status \in {"QUEUED", "RUNNING"}

\* C9: a failed terminal status (FAILED, CANCELLED) is an observation, not an
\* exception: the status check ends normally with status holding the answer
\* of the status query, nothing is raised and no result is fetched.
C9_FailedStatusIsNotAnException ==
    status \in {"FAILED", "CANCELLED"} =>
        /\ Len(StatusChecks) = 1
        /\ status = StatusChecks[1].out
        /\ exc = NoExc
        /\ pc # "raised"
        /\ Fetches = <<>>

\* C9 witness: the script ended normally having observed FAILED.
C9_Witness == pc = "done" /\ status = "FAILED" /\ exc = NoExc

\* The launch calls (create_crawler, start_crawler) of the script, by name.
Launches(op) == EventsOf(op)

\* C10: a rejected launch call (create_crawler, start_crawler) is attempted
\* exactly once and not retried, its error reaches the caller, and no status
\* polling (no wait, no status query) is started. This holds for the direct
\* client calls of the script and for the wrapper functions.
C10_RejectedLaunchPropagates ==
    /\ \A op \in {"create_crawler", "start_crawler"} :
          /\ Len(Launches(op)) <= 1
          /\ (Len(Launches(op)) = 1 /\ Launches(op)[1].out # "ok") =>
                /\ pc = "raised"
                /\ exc.code = Launches(op)[1].out
                /\ Polls = <<>>
                /\ EventsOf("sleep") = <<>>
    /\ call.fn \in {"create_crawler", "start_crawler"} =>
          /\ Len(call.remote) = 1
          /\ call.remote[1].out # "ok" => call.exc = call.remote[1].out
          /\ call.remote[1].out = "ok" => call.exc = "none"

\* C10 witness: start_crawler was rejected in the script, and a call of the
\* create_crawler wrapper was rejected with a name collision.
C10_Witness ==
    /\ pc = "raised" /\ exc.at = "start"
    /\ call.fn = "create_crawler" /\ call.exc = "AlreadyExistsException"

\* The answer of the one remote call a Glue wrapper call made.
RemoteAnswer == call.remote[1].out

\* C11 (as stated): both Glue lookup wrappers, get_crawler and get_database,
\* return no entity and raise nothing when the service answers not-found,
\* raise every other error, and return the entity record on success.
C11_LookupsTreatNotFoundAsInformational ==
    call.fn \in {"get_crawler", "get_database"} =>
        IF RemoteAnswer = "EntityNotFoundException"
           THEN call.exc = "none" /\ call.ret = "None"
           ELSE IF RemoteAnswer \in ErrorCodes
                   THEN call.exc = RemoteAnswer
                   ELSE call.exc = "none" /\ call.ret # "None"

\* C11 (amended): get_crawler returns no entity and raises nothing on
\* not-found, raises every other error and returns the crawler record on
\* success; get_database raises every error, not-found included, and returns
\* the database record on success.
C11_OnlyGetCrawlerToleratesNotFound ==
    /\ call.fn = "get_crawler" =>
          IF RemoteAnswer = "EntityNotFoundException"
             THEN call.exc = "none" /\ call.ret = "None"
             ELSE IF RemoteAnswer \in ErrorCodes
                     THEN call.exc = RemoteAnswer
                     ELSE call.exc = "none" /\ call.ret = RemoteAnswer
    /\ call.fn = "get_database" =>
          IF RemoteAnswer \in ErrorCodes
             THEN call.exc = RemoteAnswer
             ELSE call.exc = "none" /\ call.ret = "Database"

\* C11 witness: get_crawler was answered not-found and returned None.
C11_Witness ==
    /\ call.fn = "get_crawler"
    /\ RemoteAnswer = "EntityNotFoundException"
    /\ call.ret = "None" /\ call.exc = "none"

\* C12 (as stated): when nuke_bucket returns True the bucket and every object
\* that was in it are gone, and it returns False whenever the deletion of the
\* objects or of the bucket failed.
C12_NukeTrueIffAllDeleted ==
    (call.fn = "nuke_bucket" /\ call.exc = "none") =>
        /\ call.ret = "True" => (BucketName \notin buckets /\ objects = {})
        /\ call.failed => call.ret = "False"

\* C13 (as stated): for a non-empty list, delete_objects_from_bucket makes one
\* remote call (delete_object for one key, delete_objects for several) and
\* returns True only when none of the listed objects is left, False when the
\* remote call failed.
C13_DeleteTrueIffAllDeleted ==
    (call.fn = "delete_objects_from_bucket" /\ call.exc = "none") =>
        /\ call.remote = IF Len(call.arg.items) = 1
                            THEN <<"delete_object">>
                            ELSE <<"delete_objects">>
        /\ call.ret = "True" => Range(call.arg.items) \cap objects = {}
        /\ call.failed => call.ret = "False"

\* The remote calls made by GlueCrawler.run to operation op, in order.
RunCalls(op) == SelectSeq(run.log, LAMBDA e : e.op = op)

\* C14 (as stated): GlueCrawler.run calls create_crawler at most once, and
\* exactly when the first lookup reported no crawler; a run that no remote
\* error ended has called start_crawler exactly once.
C14_CreateIffAbsentStartOnce ==
    /\ Len(RunCalls("create_crawler")) <= 1
    /\ run.pc \in {"relookup", "show"} =>
          (Len(RunCalls("create_crawler")) = 1
              <=> get_crawler(run.log[1].out) = Returned("None"))
    /\ (run.pc = "raised" /\ run.exc \notin ErrorCodes) =>
          Len(RunCalls("start_crawler")) = 1

\* C16: delete_objects_from_bucket raises TypeError for a value that is not a
\* list and ValueError for an empty list, makes no remote call in either
\* case, and leaves the buckets and their contents as they were.
C16_InvalidInputRejectedBeforeRemote ==
    /\ [](call.fn = "delete_objects_from_bucket" =>
            /\ ~call.arg.isList => (call.exc = "TypeError" /\ call.remote = <<>>)
            /\ (call.arg.isList /\ call.arg.items = <<>>) =>
                   (call.exc = "ValueError" /\ call.remote = <<>>)
            /\ call.exc \in {"TypeError", "ValueError"} =>
                   (~call.arg.isList \/ call.arg.items = <<>>))
    /\ [][(call'.fn = "delete_objects_from_bucket"
              /\ call'.exc \in {"TypeError", "ValueError"})
            => UNCHANGED s3Vars]_vars

C16_Witness ==
    /\ call.fn = "delete_objects_from_bucket"
    /\ call.exc = "ValueError"
    /\ call.arg.items = <<>>
    /\ objects # {}

\* C17 (as stated): get_bucket_cors never raises; it returns the rules when
\* the service answers, [] on NoSuchCORSConfiguration, None on any other
\* error.
C17_CorsNeverRaises ==
    call.fn = "get_bucket_cors" =>
        /\ call.exc = "none"
        /\ call.ret = IF call.answer = "none" THEN "CORSRules"
                      ELSE IF call.answer = "NoSuchCORSConfiguration" THEN "[]"
                      ELSE "None"

\* C18 (as stated): check_if_bucket_exists returns True exactly when the
\* named bucket exists, also when the listing call fails.
C18_ExistsIffBucketExists ==
    (call.fn = "check_if_bucket_exists" /\ call.exc = "none") =>
        (call.ret = "True" <=> call.arg \in buckets)

\* C19 (as stated): upload_file uploads under object_name, or under file_name
\* when object_name is not given, and returns True if the file was uploaded
\* and False otherwise.
C19_DefaultObjectNameIsFileName ==
    (call.fn = "upload_file" /\ call.exc = "none") =>
        /\ call.arg.used = IF call.arg.object_name = <<>>
                              THEN call.arg.file_name
                              ELSE call.arg.object_name
        /\ call.ret = IF call.failed THEN "False" ELSE "True"
        /\ call.ret = "True" => call.arg.used \in objects

\* The part of the log made up to the end of the crawler polling loop: the
\* events before the Athena query is started.
CrawlerLoopLog ==
    IF \E i \in 1..Len(log) : log[i].op = "start_query_execution"
       THEN SubSeq(log, 1,
                   (CHOOSE i \in 1..Len(log) :
                       /\ log[i].op = "start_query_execution"
                       /\ \A j \in 1..(i - 1) : log[j].op # "start_query_execution") - 1)
       ELSE log

\* C20: in the crawler polling loop every status query comes right after
\* exactly one wait of 10 seconds, the first query after start_crawler
\* included; the waits made are as many as the queries or one more, and no
\* two queries follow each other without a wait between them.
C20_OneWaitBeforeEachQuery ==
    LET L == CrawlerLoopLog
        waits == Len(SelectSeq(L, LAMBDA e : e.op = "sleep"))
        queries == Len(SelectSeq(L, LAMBDA e : e.op = "get_crawler"))
    IN
    /\ \A i \in 1..Len(L) :
          L[i].op = "get_crawler" =>
              /\ i > 2
              /\ L[i - 1] = Event("sleep", "10", "ok")
              /\ L[i - 2].op \in {"start_crawler", "get_crawler"}
    /\ waits \in {queries, queries + 1}

C20_Witness ==
    /\ pc = "athena_start"
    /\ Len(Polls) >= 2
    /\ Len(SelectSeq(log, LAMBDA e : e.op = "sleep")) = Len(Polls)

====
